---- MODULE Spec2Model ----
(***************************************************************************)
(* The SQS event consumer of app/events: the poll loop of                  *)
(* SQSConsumerService.start_background_consumer, the message parser        *)
(* parse_event_message, the router EventRouter.route_event and the two     *)
(* user_created handlers it chains.  The transport (SQS), the database and *)
(* the module loader are the environment: their outcomes are chosen with   *)
(* \E in the action that makes the call.                                   *)
(***************************************************************************)
EXTENDS Integers, Sequences, FiniteSets, TLC

\* ------------------------------------------------------------------ bounds
\* Number of messages that are on the queue at the same time.
MaxMsgs == 2
\* Number of calls of the transport's publish in a run.
MaxPublishes == 2
\* Number of distinct readings of the clock in a run.
MaxClock == 2
\* Number of calls of parse_event_message the history keeps.
MaxParses == 2

\* ------------------------------------------------------- program constants
\* max_messages passed by initialize_sqs_consumer.
max_messages == 10
\* asyncio.sleep(1) at the end of an iteration.
NormalDelay == 1
\* asyncio.sleep(5) in the loop's except branch.
ErrorDelay == 5

\* ------------------------------------------------------------- data model
\* The readings of datetime.utcnow().
Times == 1..MaxClock
\* A timestamp text that is no date (EventMessage.timestamp: datetime).
InvalidTime == 0

\* class EventType(str, Enum)
EventType ==
    {"user_created", "user_updated", "user_deleted", "model_created", "model_updated"}

\* dict.get(key) of a key the object does not have (Python None), for the
\* string-valued and the integer-valued fields.
Absent == "<absent>"
AbsentId == -1

\* Event payloads (EventMessage.data) that are put on the queue.  complete
\* says that the required fields of UserEventData other than user_id,
\* username and role_name (name, status, created_at, updated_at) are there.
\* email is the optional field of that name, Absent when it is not there.
UserData(user_id, username, email, role_name, complete) ==
    [user_id |-> user_id, username |-> username, email |-> email,
     role_name |-> role_name, complete |-> complete]

NoData == UserData(AbsentId, Absent, Absent, Absent, FALSE)
ModelUser == UserData(1, "alice", Absent, "model", TRUE)
AdminUser == UserData(2, "bob", Absent, "admin", TRUE)
ZeroIdUser == UserData(0, "carol", Absent, "model", TRUE)
PartialUser == UserData(1, "alice", Absent, "model", FALSE)

\* A decoded JSON object: the body of a message, or the object carried in
\* the Message field of an SNS notification.  message holds the text of the
\* Message field as a sequence of at most one body.
\* event_id, service_name and metadata are the value of the key or Absent;
\* timestamp is <<>> when the key is absent, <<t>> when it holds the time t
\* and <<InvalidTime>> when it holds a text that is no date.
Event(et, data, event_id, service_name, timestamp, metadata) ==
    [kind |-> "object", has_message |-> FALSE, has_topic |-> FALSE,
     message |-> <<>>, event_type |-> et, event_id |-> event_id,
     service_name |-> service_name, timestamp |-> timestamp,
     data |-> data, metadata |-> metadata]

\* An event object as the producers of the platform write it, with all its
\* keys.
Obj(et, data) == Event(et, data, "evt-1", "user_service", <<1>>, "meta")

\* A body that json.loads rejects.
NotJson ==
    [kind |-> "invalid", has_message |-> FALSE, has_topic |-> FALSE,
     message |-> <<>>, event_type |-> Absent, event_id |-> Absent,
     service_name |-> Absent, timestamp |-> <<>>,
     data |-> NoData, metadata |-> Absent]

\* A body that decodes to a JSON value that is no object (a list, a number):
\* .get on it raises AttributeError.
NotObject == [NotJson EXCEPT !.kind = "value"]

\* The object obj with a Message key holding inner as text, and with a
\* TopicArn key when topic is TRUE.
WithMessage(obj, inner, topic) ==
    [obj EXCEPT !.has_message = TRUE, !.has_topic = topic, !.message = <<inner>>]

\* An SNS notification {"Message": <inner as text>, "TopicArn": ...}.
SnsWrap(inner) ==
    WithMessage(Event(Absent, NoData, Absent, Absent, <<>>, Absent), inner, TRUE)

\* The bodies the producers of the model send.
Bodies ==
    { NotJson,
      Obj(Absent, NoData),
      Obj("order_shipped", NoData),
      Obj("user_created", ModelUser),
      Obj("user_created", ZeroIdUser),
      Obj("user_created", PartialUser),
      Obj("user_updated", AdminUser),
      Obj("user_deleted", ModelUser),
      Obj("model_created", NoData),
      Obj("model_updated", NoData),
      SnsWrap(Obj("user_deleted", AdminUser)) }

\* A raw message as receive_message returns it.  well_formed says that it
\* has the fields SQSMessage requires (MessageId, ReceiptHandle, Body).  The
\* queue holds at most one message of each kind, and a message stands for
\* its own MessageId and ReceiptHandle.
RawMessages ==
    {[Body |-> b, well_formed |-> TRUE] : b \in Bodies}
        \cup {[Body |-> Obj("user_deleted", ModelUser), well_formed |-> FALSE]}

\* What the poll loop did with one message of the batch in this iteration;
\* h1 and h2 are the outcomes of loading and awaiting the first and the
\* second handler: "none", "ok", "fail", "raise" or "import_error".
BlankAttempt ==
    [parsed |-> "pending", routed |-> FALSE, h1 |-> "none", h2 |-> "none",
     route |-> "none", deletes |-> 0, done |-> FALSE]

\* --------------------------------------------------------------- variables
VARIABLES
    is_running,      \* SQSConsumerService.is_running
    stop_requested,  \* history: stop_consumer has been called
    pc,              \* position of the start_background_consumer coroutine
    lifespan,        \* position of the application's lifespan
    tasks,           \* history: the tasks initialize_sqs_consumer created
    queue,           \* the raw messages on the queue (sent, not deleted)
    raw_batch,       \* history: the raw messages the receive call returned
    batch,           \* sqs_messages of the current iteration
    idx,             \* index in batch of sqs_msg
    event_msg,       \* event_msg of the current message: <<>> is None
    att,             \* history: one attempt record per message of batch
    recv_failed,     \* history: the receive call of this iteration failed
    delay,           \* history: the duration of the sleep the loop is in, or
                     \* was last in; 0 before the first
    topic_arn,       \* SNSPublisherService.topic_arn is set (not None, not "")
    region_name,     \* aws_service.session_params has a region_name
    sns_calls,       \* history: number of calls of publish_sns_message
    last_publish,    \* history: the last call of publish_event
    last_op,         \* history: the last business operation
    clock,           \* datetime.utcnow()
    body,            \* the body the callers of the parser hold
    parses,          \* history: the calls of parse_event_message
    users,           \* the rows of the users table
    models,          \* the rows of the models table
    routed           \* history: the last call of route_event on the tables

\* The variables of the hosting process.
host_vars == <<lifespan, tasks>>

\* The variables of the poll loop.
consumer_vars ==
    <<is_running, stop_requested, pc, queue, raw_batch, batch, idx, event_msg,
      att, recv_failed, delay>>

\* The variables of the publisher and of the operations that publish.
pub_vars == <<topic_arn, region_name, sns_calls, last_publish, last_op>>

\* The variables of the callers of the parser.
parse_vars == <<clock, body, parses>>

\* The tables the handlers read and write.
store_vars == <<users, models, routed>>

vars == <<consumer_vars, host_vars, pub_vars, parse_vars, store_vars>>

\* ------------------------------------------------------- pure functions
\* json.loads: TRUE when the text decodes.
JsonLoads(text) == text.kind \in {"object", "value"}

\* An envelope stamped with the time of the call whatever the body says
\* (a wrong variant, to test C22 against).
BuildEventStamped(event_type, actual_message, now) ==
    IF actual_message.timestamp = <<InvalidTime>> THEN <<>>
    ELSE <<[event_type |-> event_type,
            event_id |-> IF actual_message.event_id = Absent THEN "unknown"
                         ELSE actual_message.event_id,
            service_name |-> IF actual_message.service_name = Absent
                             THEN "unknown"
                             ELSE actual_message.service_name,
            timestamp |-> now,
            data |-> actual_message.data,
            metadata |-> IF actual_message.metadata = Absent THEN "empty"
                         ELSE actual_message.metadata]>>

\* The defaults of the .get calls and the validation of EventMessage
\* (sqs_consumer.py 103-110; models.py 36-43): <<envelope>>, or <<>> when
\* the constructor raises.  now is datetime.utcnow() at the call.
BuildEvent(event_type, actual_message, now) ==
    LET timestamp == IF actual_message.timestamp = <<>> THEN now
                     ELSE actual_message.timestamp[1]
    IN  IF timestamp = InvalidTime THEN <<>>
        ELSE <<[event_type |-> event_type,
                event_id |-> IF actual_message.event_id = Absent THEN "unknown"
                             ELSE actual_message.event_id,
                service_name |-> IF actual_message.service_name = Absent
                                 THEN "unknown"
                                 ELSE actual_message.service_name,
                timestamp |-> timestamp,
                data |-> actual_message.data,
                metadata |-> IF actual_message.metadata = Absent THEN "empty"
                             ELSE actual_message.metadata]>>

\* An unwrapping that goes on for as long as the object has Message and
\* TopicArn (a wrong variant, to test C29 against).
RECURSIVE ActualMessageDeep(_)
ActualMessageDeep(body_data) ==
    IF body_data.kind = "object" /\ body_data.has_message /\ body_data.has_topic
    THEN ActualMessageDeep(body_data.message[1])
    ELSE body_data

\* No unwrapping at all (a wrong variant, to test C21 against).
ActualMessageNoUnwrap(body_data) == body_data

\* The object the event fields are read from (sqs_consumer.py 82-88): the
\* decoded Message field when the body has Message and TopicArn, the body
\* itself otherwise.
ActualMessage(body_data) ==
    IF body_data.has_message /\ body_data.has_topic
    THEN body_data.message[1]
    ELSE body_data

\* parse_event_message without the validation of the event type
\* (a wrong variant, to test C4 against).
ParseNoTypeCheck(Body, now) ==
    IF Body.kind # "object" THEN <<>>
    ELSE LET actual_message == ActualMessage(Body)
         IN  IF actual_message.kind # "object" THEN <<>>
             ELSE IF actual_message.event_type \in {Absent, ""} THEN <<>>
             ELSE BuildEvent(actual_message.event_type, actual_message, now)

\* SQSConsumerService.parse_event_message: <<event>>, or <<>> for None.
\* now is the time of the call.  A text that does not decode raises
\* JSONDecodeError and a decoded value that is no object raises in the
\* membership test or in .get; both handlers return None.
parse_event_message(Body, now) ==
    IF ~JsonLoads(Body) \/ Body.kind # "object" THEN <<>>
    ELSE LET actual_message == ActualMessage(Body)
         IN  IF ~JsonLoads(actual_message) \/ actual_message.kind # "object"
             THEN <<>>
             ELSE IF actual_message.event_type \in {Absent, ""} THEN <<>>
             ELSE IF actual_message.event_type \notin EventType THEN <<>>
             ELSE BuildEvent(actual_message.event_type, actual_message, now)

\* UserEventData(**event_data) validates: the required fields are there.
ValidUserEventData(event_data) ==
    /\ event_data.user_id # AbsentId
    /\ event_data.username # Absent
    /\ event_data.role_name # Absent
    /\ event_data.complete

\* app.services.user.process_external_user_created: FALSE when the payload
\* does not validate or create_user_from_event_data returns None, which it
\* does exactly when the database raises (db_ok = FALSE); an existing user
\* is returned as it is.
user_process_external_user_created(event_data, db_ok) ==
    IF ~ValidUserEventData(event_data) THEN FALSE ELSE db_ok

\* app.services.user.process_external_user_updated: the same shape, with
\* update_user_from_event_data.
user_process_external_user_updated(event_data, db_ok) ==
    IF ~ValidUserEventData(event_data) THEN FALSE ELSE db_ok

\* Python truthiness of event_data.get('user_id') and .get('username').
Truthy(user_id, username) ==
    /\ user_id \notin {AbsentId, 0}
    /\ username \notin {Absent, ""}

\* app.services.model.process_external_user_created: FALSE only when
\* user_id or username is missing or falsy; a user that is not a model and
\* a model user for whom _auto_link_model_user finds nothing to link or
\* fails are both TRUE.
model_process_external_user_created(event_data) ==
    IF ~Truthy(event_data.user_id, event_data.username) THEN FALSE
    ELSE IF event_data.role_name # "model" THEN TRUE
    ELSE TRUE

\* user_crud.get_user_by_id and get_user_by_username: the rows found.
get_user_by_id(user_rows, id) == {u \in user_rows : u.id = id}

get_user_by_username(user_rows, username) ==
    {u \in user_rows : u.username = username}

\* create_user_from_event_data with an INSERT for every event (a wrong
\* variant, to test C27 against): a row with the id or the username of the
\* event makes the commit raise.
CreateUserNoLookup(user_rows, event_data, db_ok) ==
    LET user == [id |-> event_data.user_id, username |-> event_data.username,
                 email |-> event_data.email]
        clash == \E u \in user_rows :
                    \/ u.id = user.id
                    \/ u.username = user.username
                    \/ user.email # Absent /\ u.email = user.email
    IN  IF db_ok /\ ~clash
        THEN [users |-> user_rows \cup {user}, user |-> TRUE]
        ELSE [users |-> user_rows, user |-> FALSE]

\* create_user_from_event_data on the rows of users (user.py 68-119; the
\* unique columns are those of models/user.py 10-13): user says that a
\* User is returned, not None.  A user found by id or by username is
\* returned as it is; otherwise a row is added, unless the database
\* raises (db_ok = FALSE) or the email is that of another row, and then
\* the exception handler returns None.
create_user_from_event_data(user_rows, event_data, db_ok) ==
    LET user == [id |-> event_data.user_id, username |-> event_data.username,
                 email |-> event_data.email]
        existing_user ==
            IF get_user_by_id(user_rows, user.id) # {}
            THEN get_user_by_id(user_rows, user.id)
            ELSE get_user_by_username(user_rows, user.username)
        clash == \E u \in user_rows : user.email # Absent /\ u.email = user.email
    IN  IF ~db_ok THEN [users |-> user_rows, user |-> FALSE]
        ELSE IF existing_user # {} THEN [users |-> user_rows, user |-> TRUE]
        ELSE IF clash THEN [users |-> user_rows, user |-> FALSE]
        ELSE [users |-> user_rows \cup {user}, user |-> TRUE]

\* app.services.user.process_external_user_created on the rows of users
\* (user.py 188-215): the rows afterwards and the value returned.
UserCreatedOnStore(user_rows, event_data, db_ok) ==
    IF ~ValidUserEventData(event_data)
    THEN [users |-> user_rows, result |-> FALSE]
    ELSE LET created == create_user_from_event_data(user_rows, event_data, db_ok)
         IN  [users |-> created.users, result |-> created.user]

\* The outcomes of the database in _auto_link_model_user.
DbOutcomes == {"ok", "read_fails", "write_fails"}

\* model_crud.get_model_by_email: the profile with that email, as a set of
\* at most one email.
get_model_by_email(model_rows, email) == {e \in DOMAIN model_rows : e = email}

\* model_crud.update_model with ModelUpdate(user_id=...): the rows with the
\* profile's link set.
update_model(model_rows, email, user_id) ==
    [model_rows EXCEPT ![email] = user_id]

\* _auto_link_model_user without the test of the link the profile has (a
\* wrong variant, to test C28 against).
AutoLinkOverwrite(model_rows, username, email, user_id, db) ==
    LET search_email == IF email \in {Absent, ""} THEN username ELSE email
        model == get_model_by_email(model_rows, search_email)
    IN  IF db = "read_fails" THEN [models |-> model_rows, linked |-> FALSE]
        ELSE IF model = {} THEN [models |-> model_rows, linked |-> FALSE]
        ELSE IF db = "write_fails" THEN [models |-> model_rows, linked |-> FALSE]
        ELSE [models |-> update_model(model_rows, search_email, user_id),
              linked |-> TRUE]

\* _auto_link_model_user on the rows of models (model.py 679-736): the rows
\* afterwards and the value returned.  A row maps the profile's email to
\* its user_id, AbsentId for NULL.
_auto_link_model_user(model_rows, username, email, user_id, db) ==
    LET search_email == IF email \in {Absent, ""} THEN username ELSE email
        model == get_model_by_email(model_rows, search_email)
    IN  IF db = "read_fails" THEN [models |-> model_rows, linked |-> FALSE]
        ELSE IF model = {} THEN [models |-> model_rows, linked |-> FALSE]
        ELSE IF model_rows[search_email] # AbsentId
        THEN [models |-> model_rows, linked |-> FALSE]
        ELSE IF db = "write_fails" THEN [models |-> model_rows, linked |-> FALSE]
        ELSE [models |-> update_model(model_rows, search_email, user_id),
              linked |-> TRUE]

\* app.services.model.process_external_user_created on the rows of models
\* (model.py 626-676): the rows afterwards, whether _auto_link_model_user
\* was called and what it returned; the value the handler returns is
\* model_process_external_user_created.
ModelUserCreatedOnStore(model_rows, event_data, db) ==
    IF ~Truthy(event_data.user_id, event_data.username)
    THEN [models |-> model_rows, called |-> FALSE, linked |-> FALSE]
    ELSE IF event_data.role_name # "model"
    THEN [models |-> model_rows, called |-> FALSE, linked |-> FALSE]
    ELSE LET link == _auto_link_model_user(model_rows, event_data.username,
                                           event_data.email, event_data.user_id, db)
         IN  [models |-> link.models, called |-> TRUE, linked |-> link.linked]

\* Success only when both handlers returned success (a wrong variant, to
\* test C23 against).
RouteChainBoth(success, model_success) == success /\ model_success

\* What loading and awaiting a handler gives route_event: exc is the
\* exception raised inside its try ("none", "ImportError", "Exception"),
\* result the handler's return value.
HandlerOutcome(exc, result) ==
    IF exc = "ImportError" THEN "import_error"
    ELSE IF exc = "Exception" THEN "raise"
    ELSE IF result THEN "ok" ELSE "fail"

\* The number of handlers route_event invokes for an event type
\* (event_router.py 31-46).
ChainLength(event_type) ==
    IF event_type = "user_created" THEN 2
    ELSE IF event_type = "user_updated" THEN 1
    ELSE 0

\* route_event's return value for a type it invokes no handler for
\* (event_router.py 42-46): user_deleted returns True, any other type
\* is "Unsupported" and returns False.
RouteNoHandler(event_type) == event_type = "user_deleted"

\* Every exception returning True (a wrong variant, to test C5 against).
RouteExceptSwallowAll(outcome) == TRUE

\* route_event's except branches (event_router.py 55-61): ImportError
\* returns True, any other exception False.
RouteExcept(outcome) == outcome = "import_error"

\* route_event's return value after the first handler of user_created
\* returned (event_router.py 33-37, 53): success is the first handler's
\* result; the second handler's result, model_success, is only logged.
RouteChainResult(success, model_success) == success

\* The second handler awaited whatever the first returned (a wrong variant,
\* to test C8 against).
ContinueChainAlways(success) == TRUE

\* route_event's test before the second handler of user_created
\* (event_router.py 34): it is loaded and awaited only when the first
\* handler returned success.
ContinueChain(success) == success

\* The message deleted whatever route_event returned, and deleted only
\* when it returned failure (wrong variants, to test C1 and C2 against).
AckAlways(success) == TRUE

AckInverted(success) == ~success

\* The poll loop's decision after route_event (sqs_consumer.py 203-208).
Ack(success) == success

\* A loop that ends at the first message that failed (a wrong variant, to
\* test C26 against).
AfterMessageGiveUp(i, n, failed) ==
    IF failed THEN [pc |-> "exited", idx |-> i]
    ELSE IF i < n THEN [pc |-> "parse", idx |-> i + 1]
    ELSE [pc |-> "sleep", idx |-> i]

\* The rest of the batch given up after a message that failed (a wrong
\* variant, to test C7 against).
AfterMessageAbort(i, n, failed) ==
    IF i < n /\ ~failed THEN [pc |-> "parse", idx |-> i + 1]
    ELSE [pc |-> "sleep", idx |-> i]

\* Where the for loop goes after message i of n (sqs_consumer.py 190,
\* 214-218): to the next message whatever the outcome of message i, to the
\* sleep after the last one.
AfterMessage(i, n, failed) ==
    IF i < n THEN [pc |-> "parse", idx |-> i + 1]
    ELSE [pc |-> "sleep", idx |-> i]

\* A failed receive leaving the loop as an exception nothing catches (a
\* wrong variant, to test C9 against).
AfterPullRaise(received, n) ==
    IF ~received THEN "exited"
    ELSE IF n > 0 THEN "parse" ELSE "sleep"

\* Where the loop goes after pull_messages returned n messages (lines
\* 187-190, 218); received says whether the transport's receive call
\* succeeded, which the loop cannot tell from the list.
AfterPull(received, n) == IF n > 0 THEN "parse" ELSE "sleep"

\* The lists receive_message can return: distinct messages of the queue,
\* at most max of them, in any order.
Receivable(q, max) ==
    LET n == IF Cardinality(q) < max THEN Cardinality(q) ELSE max
    IN  {s \in UNION {[1..k -> q] : k \in 0..n} :
            \A i, j \in DOMAIN s : i # j => s[i] # s[j]}

\* A conversion that puts each converted message in front of the list.
ConvertedReversed(raw_messages) ==
    LET kept == SelectSeq(raw_messages, LAMBDA m : m.well_formed)
    IN  [k \in 1..Len(kept) |-> kept[Len(kept) + 1 - k]]

\* pull_messages' conversion (sqs_consumer.py 50-61): a raw message that
\* SQSMessage(**raw_msg) rejects is logged and left out.
Converted(raw_messages) ==
    SelectSeq(raw_messages, LAMBDA m : m.well_formed)

\* -------------------------------------------------------- the publisher
\* class ServiceTarget(str, Enum): the values.
ServiceTarget ==
    {"all", "user_service", "project_service", "model_service",
     "selection_service", "notification_service"}

\* The names of the members of EventType (class attributes).
EventTypeMembers ==
    {"USER_CREATED", "USER_UPDATED", "USER_DELETED", "MODEL_CREATED",
     "MODEL_UPDATED"}

\* EventType.<member>: the value of a member.
EventTypeValue(member) ==
    CASE member = "USER_CREATED" -> "user_created"
      [] member = "USER_UPDATED" -> "user_updated"
      [] member = "USER_DELETED" -> "user_deleted"
      [] member = "MODEL_CREATED" -> "model_created"
      [] member = "MODEL_UPDATED" -> "model_updated"

\* PublishEventRequest.target_services is Union[ServiceTarget,
\* List[ServiceTarget]] with use_enum_values: one name (a str) or a list of
\* names.
Str(name) == [kind |-> "str", str |-> name, list |-> <<>>]
List(names) == [kind |-> "list", str |-> "", list |-> names]

\* The target_services of the requests that are published.
TargetChoices ==
    {Str("all"), Str("user_service"), List(<<"selection_service">>),
     List(<<"user_service", "selection_service">>), List(<<>>)}

\* The validated PublishEventRequest values that are published.  data is
\* the payload: one that model_dump_json serializes or one that holds a
\* value it cannot serialize.
PublishRequests ==
    [event_type : EventType,
     target_services : TargetChoices,
     data : {"plain", "unserializable"},
     source_service : {"model_management", "project_management"}]

\* What the transport does with a publish: it accepts it, it refuses it
\* (ClientError or any other exception inside publish_sns_message's try),
\* or the session cannot be made (_ensure_session raises before the try).
Transports == {"ok", "client_error", "session_error"}

\* Values a call returns: None, a message id, or an exception instead.
RetNone == [kind |-> "None", id |-> 0]
RetId(n) == [kind |-> "id", id |-> n]
Raised == [kind |-> "raise", id |-> 0]

\* No call of publish_event yet, and no business operation yet.
NoPublish ==
    [invoked |-> FALSE, request |-> <<>>, transport |-> "not_called",
     message |-> <<>>, attributes |-> <<>>, returned |-> RetNone]
NoOp == [name |-> "none", db_written |-> FALSE, outcome |-> "none"]

\* PublishEventRequest.generate_event_message (models.py 59-79); event_id,
\* timestamp and published_at are left out.
generate_event_message(request) ==
    LET target_list == IF request.target_services.kind = "str"
                       THEN <<request.target_services.str>>
                       ELSE request.target_services.list
    IN  [event_type |-> request.event_type,
         service_name |-> request.source_service,
         data |-> request.data,
         metadata |-> [target_services |-> target_list]]

\* json.dumps of a list of strings: the text of a JSON array.
json_dumps(names) == [kind |-> "array", items |-> names]

\* EventMessage.model_dump_json: the text of a JSON object, or an
\* exception for a payload that does not serialize.
model_dump_json(event_message) ==
    IF event_message.data = "unserializable"
    THEN <<>>
    ELSE <<[kind |-> "object",
            event_type |-> event_message.event_type,
            service_name |-> event_message.service_name,
            metadata |-> [target_services |->
                            json_dumps(event_message.metadata.target_services)]]>>

\* A conversion that replaces the broadcast name by the names of the
\* services.
GetTargetServicesExpanded(target_services) ==
    IF target_services.kind = "str" /\ target_services.str = "all"
    THEN <<"user_service", "project_service", "model_service",
           "selection_service", "notification_service">>
    ELSE IF target_services.kind = "str" THEN <<target_services.str>>
    ELSE target_services.list

\* SNSPublisherService._get_target_services (sns_publisher.py 77-84).
_get_target_services(target_services) ==
    IF target_services.kind = "str"
    THEN <<target_services.str>>
    ELSE target_services.list

\* The message attributes publish_event builds (sns_publisher.py 41-54).
MessageAttributes(event_message, target_services) ==
    [event_type |-> event_message.event_type,
     target_services |-> json_dumps(target_services),
     source_service |-> event_message.service_name]

\* SNSPublisherService.is_configured.
is_configured == topic_arn /\ region_name

\* A publish_event without the test of the topic.
TopicMissingIgnored(topic) == FALSE

\* `if not self.topic_arn` (sns_publisher.py 29).
TopicMissing(topic) == ~topic

\* AWSService.publish_sns_message (aws_service.py 310-376): what it
\* returns for the topic and for what the transport does; message_id is
\* the MessageId of the transport's response.
publish_sns_message(topic, transport, message_id) ==
    IF transport = "session_error" THEN Raised
    ELSE IF ~topic THEN RetNone
    ELSE IF transport = "ok" THEN RetId(message_id)
    ELSE RetNone

\* A publish_event without its try.
PublishExceptReraise(returned) == returned

\* publish_event's `except Exception` (sns_publisher.py 73-75): an
\* exception of its body becomes None.
PublishExcept(returned) ==
    IF returned.kind = "raise" THEN RetNone ELSE returned

\* SNSPublisherService.publish_event (sns_publisher.py 18-75): the record
\* of the call.  transport is "not_called" when publish_sns_message was not
\* called.
publish_event(publish_request, transport, message_id) ==
    LET event_message == generate_event_message(publish_request)
        message_body == model_dump_json(event_message)
        target_services == _get_target_services(publish_request.target_services)
        unsent == [invoked |-> TRUE, request |-> <<publish_request>>,
                   transport |-> "not_called", message |-> <<>>,
                   attributes |-> <<>>, returned |-> RetNone]
    IN  IF TopicMissing(topic_arn)
        THEN unsent
        ELSE IF message_body = <<>>
        THEN [unsent EXCEPT !.returned = PublishExcept(Raised)]
        ELSE [invoked |-> TRUE, request |-> <<publish_request>>,
              transport |-> transport,
              message |-> message_body,
              attributes |-> <<MessageAttributes(event_message, target_services)>>,
              returned |-> PublishExcept(
                  publish_sns_message(topic_arn, transport, message_id))]

\* ------------------------------------------------------------ the machine
\* The consumer's side of the process before the startup part of lifespan:
\* no consumer service, no task.
ConsumerInit ==
    /\ lifespan = "startup"
    /\ tasks = 0
    /\ is_running = FALSE
    /\ stop_requested = FALSE
    /\ pc = "none"
    /\ queue = {}
    /\ raw_batch = <<>>
    /\ batch = <<>>
    /\ idx = 0
    /\ event_msg = <<>>
    /\ att = <<>>
    /\ recv_failed = FALSE
    /\ delay = 0

\* The publisher's side with nothing published: sns_publisher is
\* constructed at import (sns_publisher.py 14-16, 100), and the settings
\* give a topic and a region or do not.
PublisherInit ==
    /\ topic_arn \in BOOLEAN
    /\ region_name \in BOOLEAN
    /\ sns_calls = 0
    /\ last_publish = NoPublish
    /\ last_op = NoOp

\* No caller of the parser outside the poll loop.
ParserIdle ==
    /\ clock = 1
    /\ body = NotJson
    /\ parses = <<>>

\* Empty tables, and no call of route_event on them.
StoresIdle ==
    /\ users = {}
    /\ models = <<>>
    /\ routed = <<>>

\* The poll loop in a process whose publisher is configured and not used.
Init ==
    /\ ConsumerInit
    /\ topic_arn = TRUE
    /\ region_name = TRUE
    /\ sns_calls = 0
    /\ last_publish = NoPublish
    /\ last_op = NoOp
    /\ ParserIdle
    /\ StoresIdle

\* The startup part of lifespan (main.py 96): initialize_sqs_consumer
\* constructs the service (SQSConsumerService.__init__, is_running False)
\* and, when the queue URL is configured, creates the one task of
\* start_background_consumer, which has not run yet.
Initialize ==
    /\ lifespan = "startup"
    /\ lifespan' = "serving"
    /\ \E configured \in BOOLEAN :
         /\ tasks' = IF configured THEN tasks + 1 ELSE tasks
         /\ pc' = IF configured THEN "start" ELSE "none"
    /\ UNCHANGED <<is_running, stop_requested, queue, raw_batch, batch, idx,
                   event_msg, att, recv_failed, delay, pub_vars,
                   parse_vars, store_vars>>

\* A producer (or the topic's fan-out) puts a message on the queue.  The
\* loop reads the queue only in its receive call, so that a message that
\* arrives at any other time is one that arrives just before the next call.
Arrive(raw) ==
    /\ pc = "poll"
    /\ Cardinality(queue) < MaxMsgs
    /\ raw \notin queue
    /\ queue' = queue \cup {raw}
    /\ UNCHANGED <<is_running, stop_requested, pc, batch, idx, event_msg, att,
                   recv_failed, delay, raw_batch>>
    /\ UNCHANGED <<host_vars, pub_vars, parse_vars, store_vars>>

\* SQSConsumerService.stop_consumer.
StopConsumer ==
    /\ lifespan = "serving"
    /\ is_running \/ ~stop_requested
    /\ is_running' = FALSE
    /\ stop_requested' = TRUE
    /\ UNCHANGED <<pc, queue, raw_batch, batch, idx, event_msg, att,
                   recv_failed, delay>>
    /\ UNCHANGED <<host_vars, pub_vars, parse_vars, store_vars>>

\* start_background_consumer, line 175.
Begin ==
    /\ pc = "start"
    /\ is_running' = TRUE
    /\ pc' = "test"
    /\ UNCHANGED <<stop_requested, queue, batch, idx, event_msg, att,
                   recv_failed, delay, raw_batch>>
    /\ UNCHANGED <<host_vars, pub_vars, parse_vars, store_vars>>

\* A loop test that does not read is_running: while True.
LoopTestIgnoreStop ==
    /\ pc = "test"
    /\ pc' = "poll"
    /\ UNCHANGED <<is_running, stop_requested, queue, batch, idx, event_msg,
                   att, recv_failed, delay, raw_batch>>
    /\ UNCHANGED <<host_vars, pub_vars, parse_vars, store_vars>>

\* while self.is_running (line 178).
LoopTest ==
    /\ pc = "test"
    /\ pc' = IF is_running THEN "poll" ELSE "exited"
    /\ UNCHANGED <<is_running, stop_requested, queue, batch, idx, event_msg,
                   att, recv_failed, delay, raw_batch>>
    /\ UNCHANGED <<host_vars, pub_vars, parse_vars, store_vars>>

\* await self.pull_messages(...) and the test of its result (lines 181-188).
\* A failed receive (receive_sqs_messages returns [] on a ClientError or any
\* other exception, and pull_messages returns [] on what is raised before
\* that) gives the empty list.
Poll ==
    /\ pc = "poll"
    /\ \E received \in BOOLEAN :
         \E raw_messages \in (IF received THEN Receivable(queue, max_messages) ELSE {<<>>}) :
            LET sqs_messages == Converted(raw_messages)
            IN  /\ recv_failed' = ~received
                /\ raw_batch' = raw_messages
                /\ batch' = sqs_messages
                /\ att' = [i \in 1..Len(sqs_messages) |-> BlankAttempt]
                /\ pc' = AfterPull(received, Len(sqs_messages))
                /\ idx' = IF sqs_messages # <<>> THEN 1 ELSE 0
                /\ delay' = IF pc' = "sleep" THEN NormalDelay ELSE delay
    /\ event_msg' = <<>>
    /\ UNCHANGED <<is_running, stop_requested, queue>>
    /\ UNCHANGED <<host_vars, pub_vars, parse_vars, store_vars>>

\* event_msg = self.parse_event_message(sqs_msg) and the test of it
\* (lines 193-195, 209-210).
Parse ==
    /\ pc = "parse"
    /\ \E now \in Times :
       LET parsed == parse_event_message(batch[idx].Body, now)
       IN  /\ event_msg' = parsed
           /\ att' = [att EXCEPT ![idx].parsed = IF parsed = <<>> THEN "none" ELSE "event"]
           /\ pc' = IF parsed = <<>> THEN "delete" ELSE "route"
    /\ UNCHANGED <<is_running, stop_requested, queue, batch, idx, recv_failed,
                   delay, raw_batch>>
    /\ UNCHANGED <<host_vars, pub_vars, parse_vars, store_vars>>

\* A route_event that stamps the metadata of the envelope it was given
\* before it returns (a wrong variant, to test C24 against).
RoutedStamping(a, success) ==
    LET b == [a EXCEPT !.route = IF success THEN "true" ELSE "false"]
        nx == AfterMessage(idx, Len(batch), TRUE)
    IN  IF Ack(success)
        THEN /\ att' = [att EXCEPT ![idx] = b]
             /\ pc' = "delete"
             /\ event_msg' = <<[event_msg[1] EXCEPT !.metadata = "routed"]>>
             /\ UNCHANGED <<idx, delay>>
        ELSE /\ att' = [att EXCEPT ![idx] = [b EXCEPT !.done = TRUE]]
             /\ pc' = nx.pc
             /\ idx' = nx.idx
             /\ event_msg' = <<>>
             /\ delay' = IF nx.pc = "sleep" THEN NormalDelay ELSE delay

\* A loop that on success hands the delete to a task of its own and goes
\* on with the next message.
RoutedDeferDelete(a, success) ==
    LET b == [a EXCEPT !.route = IF success THEN "true" ELSE "false"]
        nx == AfterMessage(idx, Len(batch), TRUE)
    IN  /\ att' = [att EXCEPT ![idx] = IF Ack(success) THEN b
                                      ELSE [b EXCEPT !.done = TRUE]]
        /\ pc' = nx.pc
        /\ idx' = nx.idx
        /\ event_msg' = <<>>
        /\ delay' = IF nx.pc = "sleep" THEN NormalDelay ELSE delay

\* route_event has returned success for message idx, whose attempt record
\* is a: the loop deletes the message or logs the failure and goes on.
Routed(a, success) ==
    LET b == [a EXCEPT !.route = IF success THEN "true" ELSE "false"]
        nx == AfterMessage(idx, Len(batch), TRUE)
    IN  IF Ack(success)
        THEN /\ att' = [att EXCEPT ![idx] = b]
             /\ pc' = "delete"
             /\ UNCHANGED <<idx, event_msg, delay>>
        ELSE /\ att' = [att EXCEPT ![idx] = [b EXCEPT !.done = TRUE]]
             /\ pc' = nx.pc
             /\ idx' = nx.idx
             /\ event_msg' = <<>>
             /\ delay' = IF nx.pc = "sleep" THEN NormalDelay ELSE delay

\* success = await event_router.route_event(event_msg), up to the return of
\* the first handler (event_router.py 24-34, 39-61).
Route ==
    /\ pc = "route"
    /\ LET event_type == event_msg[1].event_type
           event_data == event_msg[1].data
           a == [att[idx] EXCEPT !.routed = TRUE]
       IN  IF ChainLength(event_type) = 0
           THEN Routed(a, RouteNoHandler(event_type))
           ELSE \E exc \in {"none", "ImportError", "Exception"}, db_ok \in BOOLEAN :
                  LET result == IF event_type = "user_created"
                                THEN user_process_external_user_created(event_data, db_ok)
                                ELSE user_process_external_user_updated(event_data, db_ok)
                      h1 == HandlerOutcome(exc, result)
                      a1 == [a EXCEPT !.h1 = h1]
                  IN  IF h1 \in {"raise", "import_error"}
                      THEN Routed(a1, RouteExcept(h1))
                      ELSE IF ChainLength(event_type) = 2 /\ ContinueChain(h1 = "ok")
                      THEN /\ att' = [att EXCEPT ![idx] = a1]
                           /\ pc' = "route_h2"
                           /\ UNCHANGED <<idx, event_msg, delay>>
                      ELSE Routed(a1, h1 = "ok")
    /\ UNCHANGED <<is_running, stop_requested, queue, batch, recv_failed,
                   raw_batch>>
    /\ UNCHANGED <<host_vars, pub_vars, parse_vars, store_vars>>

\* route_event for user_created after the first handler succeeded: the
\* model service's handler and the return (event_router.py 35-37, 48-61).
RouteSecond ==
    /\ pc = "route_h2"
    /\ \E exc \in {"none", "ImportError", "Exception"} :
         LET model_success == model_process_external_user_created(event_msg[1].data)
             h2 == HandlerOutcome(exc, model_success)
             a2 == [att[idx] EXCEPT !.h2 = h2]
         IN  IF h2 \in {"raise", "import_error"}
             THEN Routed(a2, RouteExcept(h2))
             ELSE Routed(a2, RouteChainResult(att[idx].h1 = "ok", model_success))
    /\ UNCHANGED <<is_running, stop_requested, queue, batch, recv_failed,
                   raw_batch>>
    /\ UNCHANGED <<host_vars, pub_vars, parse_vars, store_vars>>

\* await self.delete_message(queue_url, sqs_msg.ReceiptHandle) (lines 205,
\* 212, 135-159): the transport deletes the message or fails, and the
\* result is dropped.
Delete ==
    /\ pc = "delete"
    /\ \E deleted \in BOOLEAN :
         LET nx == AfterMessage(idx, Len(batch), ~deleted)
         IN  /\ queue' = IF deleted THEN queue \ {batch[idx]} ELSE queue
             /\ att' = [att EXCEPT ![idx].deletes = @ + 1, ![idx].done = TRUE]
             /\ pc' = nx.pc
             /\ idx' = nx.idx
             /\ delay' = IF nx.pc = "sleep" THEN NormalDelay ELSE delay
    /\ event_msg' = <<>>
    /\ UNCHANGED <<is_running, stop_requested, batch, recv_failed, raw_batch>>
    /\ UNCHANGED <<host_vars, pub_vars, parse_vars, store_vars>>

\* A sleep after which the loop goes to the receive call without the test
\* of is_running.
SleepSkipsTest ==
    /\ pc = "sleep"
    /\ pc' = "poll"
    /\ raw_batch' = <<>>
    /\ batch' = <<>>
    /\ idx' = 0
    /\ att' = <<>>
    /\ recv_failed' = FALSE
    /\ UNCHANGED <<is_running, stop_requested, queue, event_msg, delay>>
    /\ UNCHANGED <<host_vars, pub_vars, parse_vars, store_vars>>

\* await asyncio.sleep(1) returns (line 218): the iteration is over, and
\* its list of messages and the records of it are dropped.
Sleep ==
    /\ pc = "sleep"
    /\ pc' = "test"
    /\ raw_batch' = <<>>
    /\ batch' = <<>>
    /\ idx' = 0
    /\ att' = <<>>
    /\ recv_failed' = FALSE
    /\ UNCHANGED <<is_running, stop_requested, queue, event_msg, delay>>
    /\ UNCHANGED <<host_vars, pub_vars, parse_vars, store_vars>>

Next ==
    \/ Initialize
    \/ \E raw \in RawMessages : Arrive(raw)
    \/ StopConsumer
    \/ Begin
    \/ LoopTest
    \/ Poll
    \/ Parse
    \/ Route
    \/ RouteSecond
    \/ Delete
    \/ Sleep

Spec == Init /\ [][Next]_vars

\* The steps of the start_background_consumer coroutine.
Loop == Begin \/ LoopTest \/ Poll \/ Parse \/ Route \/ RouteSecond \/ Delete \/ Sleep

\* One raw message of each kind the loop tells apart: a body that does not
\* parse, an event with two handlers, one whose payload the first handler
\* rejects, an event with one handler, the two kinds without a handler,
\* and a raw message that pull_messages leaves out.
LoopMessages ==
    {[Body |-> b, well_formed |-> TRUE] :
        b \in {NotJson, Obj("user_created", ModelUser),
               Obj("user_created", PartialUser), Obj("user_updated", AdminUser),
               Obj("user_deleted", ModelUser), Obj("model_created", NoData)}}
        \cup {[Body |-> Obj("user_deleted", ModelUser), well_formed |-> FALSE]}

FairNext ==
    \/ Initialize
    \/ \E raw \in LoopMessages : Arrive(raw)
    \/ StopConsumer
    \/ Loop

\* The event loop resumes the coroutine whenever the call it awaits has
\* returned.
FairSpec == Init /\ [][FairNext]_vars /\ WF_vars(Loop)

\* Messages whose handlers can fail and can succeed (an event with two
\* handlers, an event with one), and one that route_event never accepts.
RetryMessages ==
    {[Body |-> b, well_formed |-> TRUE] :
        b \in {Obj("user_created", ModelUser), Obj("user_updated", AdminUser)}}

RedeliverMessages ==
    RetryMessages \cup {[Body |-> Obj("model_created", NoData), well_formed |-> TRUE]}

\* The loop running for ever: stop_consumer is not called.
RedeliverNext ==
    \/ Initialize
    \/ \E raw \in RedeliverMessages : Arrive(raw)
    \/ Loop

\* The receive call returns the message raw.
Redelivered(raw) == Poll /\ \E i \in DOMAIN batch' : batch'[i] = raw

\* The handlers of raw return success: route_event goes on to the second
\* handler or returns True.
FirstHandlerSucceeds(raw) ==
    Route /\ batch[idx] = raw /\ pc' \in {"route_h2", "delete"}

SecondHandlerSucceeds(raw) ==
    RouteSecond /\ batch[idx] = raw /\ pc' = "delete"

\* The transport deletes raw.
DeleteSucceeds(raw) == Delete /\ batch[idx] = raw /\ raw \notin queue'

\* The event loop resumes the coroutine; the transport returns a message
\* that stays visible again and again, the handlers of a message that is
\* tried again and again succeed in the end, and so do the deletes.
RedeliverSpec ==
    /\ Init
    /\ [][RedeliverNext]_vars
    /\ WF_vars(Loop)
    /\ \A raw \in RetryMessages :
          /\ SF_vars(Redelivered(raw))
          /\ SF_vars(FirstHandlerSucceeds(raw))
          /\ SF_vars(SecondHandlerSucceeds(raw))
          /\ SF_vars(DeleteSucceeds(raw))

\* The coroutine is suspended in an await: before its first step, in the
\* receive call, in a handler that reached the database, in the delete
\* call or in the sleep.  Parsing, the while test and a route_event without
\* a handler await nothing.
Suspended ==
    \/ pc \in {"start", "poll", "delete", "sleep"}
    \/ /\ pc = "route"
       /\ ChainLength(event_msg[1].event_type) > 0
       /\ ValidUserEventData(event_msg[1].data)
    \/ /\ pc = "route_h2"
       /\ Truthy(event_msg[1].data.user_id, event_msg[1].data.username)
       /\ event_msg[1].data.role_name = "model"

\* The end of lifespan, shutdown_sqs_consumer (main.py 55-73, 101): when
\* there is a task and it is not done, sqs_consumer_task.cancel() and the
\* await of the task.  CancelledError is raised in the coroutine at the
\* await it is suspended in; it is not an Exception, so that no except
\* branch of the loop, of route_event or of a handler catches it, and the
\* task ends there.  A delete call that was awaited has reached the
\* transport or has not.
Shutdown ==
    /\ lifespan = "serving"
    /\ lifespan' = "stopped"
    /\ IF pc \in {"none", "exited"}
       THEN UNCHANGED <<pc, queue>>
       ELSE /\ Suspended
            /\ pc' = "cancelled"
            /\ queue' \in (IF pc = "delete" THEN {queue, queue \ {batch[idx]}}
                                            ELSE {queue})
    /\ UNCHANGED <<tasks, is_running, stop_requested, raw_batch, batch, idx,
                   event_msg, att, recv_failed, delay, pub_vars,
                   parse_vars, store_vars>>

ShutdownNext == Next \/ Shutdown

\* The consumer in its hosting process: the application's lifespan ends
\* with shutdown_sqs_consumer.
ShutdownSpec == Init /\ [][ShutdownNext]_vars

\* The call sites of the publisher in the business operations: the member
\* of EventType the operation names, whether its helper tests is_configured
\* first, and the target and the source of the request the helper builds.
\*   create_role -> _publish_role_event (role.py 44, 304-357)
\*   create_project_service -> _publish_project_event (project.py 40-47, 202-238)
\*   register_model, update_model -> _publish_model_event (model.py 233, 451,
\*   19-134)
PublishingOps ==
    {[name |-> "create_role", member |-> "ROLE_CREATED", tests_configured |-> TRUE,
      target_services |-> List(<<"selection_service">>),
      source_service |-> "model_management"],
     [name |-> "create_project_service", member |-> "MODEL_CREATED",
      tests_configured |-> FALSE,
      target_services |-> Str("all"),
      source_service |-> "project_management"],
     [name |-> "register_model", member |-> "MODEL_CREATED", tests_configured |-> TRUE,
      target_services |-> List(<<"user_service", "selection_service">>),
      source_service |-> "model_management"],
     [name |-> "update_model", member |-> "MODEL_UPDATED", tests_configured |-> TRUE,
      target_services |-> List(<<"user_service", "selection_service">>),
      source_service |-> "model_management"]}

\* A caller awaits sns_publisher.publish_event(publish_request).
PublishEvent ==
    /\ sns_calls < MaxPublishes
    /\ \E publish_request \in PublishRequests, transport \in Transports :
         LET call == publish_event(publish_request, transport, sns_calls + 1)
         IN  /\ last_publish' = call
             /\ sns_calls' = IF call.transport = "not_called"
                             THEN sns_calls ELSE sns_calls + 1
    /\ UNCHANGED <<topic_arn, region_name, last_op, consumer_vars, host_vars,
                 parse_vars, store_vars>>

\* A business operation whose validation passed: it writes to the
\* database and then publishes.  The member of EventType is looked up in
\* the operation itself, where the call of the helper is written: a name
\* that EventType does not have raises AttributeError there, outside the
\* helper's try, and the operation ends with it (create_role's own except
\* branch logs and raises again, role.py 49-51).  The helper returns
\* whatever happens inside it (its `except Exception` only logs), without a
\* publish when it tests is_configured and the publisher is not, or when
\* update_model changed no field.
BusinessOperation ==
    /\ sns_calls < MaxPublishes
    /\ \E o \in PublishingOps, data \in {"plain", "unserializable"},
          transport \in Transports, changed \in BOOLEAN :
         LET publish_request == [event_type |-> EventTypeValue(o.member),
                                 target_services |-> o.target_services,
                                 data |-> data,
                                 source_service |-> o.source_service]
             call == publish_event(publish_request, transport, sns_calls + 1)
             done(outcome) == [name |-> o.name, db_written |-> TRUE,
                               outcome |-> outcome]
         IN  IF o.member \notin EventTypeMembers
             THEN /\ last_op' = done("raised")
                  /\ UNCHANGED <<last_publish, sns_calls>>
             ELSE IF \/ o.tests_configured /\ ~is_configured
                     \/ o.name = "update_model" /\ ~changed
             THEN /\ last_op' = done("returned")
                  /\ UNCHANGED <<last_publish, sns_calls>>
             ELSE /\ last_op' = done("returned")
                  /\ last_publish' = call
                  /\ sns_calls' = IF call.transport = "not_called"
                                  THEN sns_calls ELSE sns_calls + 1
    /\ UNCHANGED <<topic_arn, region_name, consumer_vars, host_vars,
                 parse_vars, store_vars>>

PubInit == ConsumerInit /\ PublisherInit /\ ParserIdle /\ StoresIdle

PubNext == PublishEvent \/ BusinessOperation

\* The publisher and the operations that publish, under every
\* configuration.
PubSpec == PubInit /\ [][PubNext]_vars

\* --------------------------------------------------------- the parser
\* The event objects the parser is called on: with and without each of the
\* keys the parser reads.
LeafEvents ==
    { Event(et, ModelUser, event_id, service_name, timestamp, metadata) :
        et \in {Absent, "order_shipped", "user_created"},
        event_id \in {Absent, "evt-1"},
        service_name \in {Absent, "user_service"},
        timestamp \in {<<>>, <<1>>, <<InvalidTime>>},
        metadata \in {"meta"} }
        \cup {Event("user_deleted", NoData, "evt-2", Absent, <<>>, Absent)}

\* The texts a Message key holds.
Texts == LeafEvents \cup {NotJson, NotObject}

\* The bodies the parser is called on: a text, or an object (an empty one,
\* or an event) with a Message key and with or without a TopicArn key.
ParseBodies ==
    Texts \cup
    { WithMessage(outer, inner, topic) :
        outer \in {Event(Absent, NoData, Absent, Absent, <<>>, Absent),
                   Event("user_updated", AdminUser, "evt-3", "user_service",
                         <<>>, "meta")},
        inner \in Texts,
        topic \in BOOLEAN }

ParseInit ==
    /\ ConsumerInit
    /\ topic_arn = TRUE
    /\ region_name = TRUE
    /\ sns_calls = 0
    /\ last_publish = NoPublish
    /\ last_op = NoOp
    /\ StoresIdle
    /\ clock = 1
    /\ body \in ParseBodies
    /\ parses = <<>>

\* Time passes between two calls.
Tick ==
    /\ clock < MaxClock
    /\ clock' = clock + 1
    /\ UNCHANGED <<body, parses, consumer_vars, host_vars, pub_vars, store_vars>>

\* A call of parse_event_message on the body as it was sent to the queue
\* (wrapped = FALSE) or as a topic subscription delivers it (wrapped =
\* TRUE).  The method reads sqs_message.Body and the clock and assigns
\* nothing outside its locals (sqs_consumer.py 67-121).
ParseCall(wrapped) ==
    /\ Len(parses) < MaxParses
    /\ LET Body == IF wrapped THEN SnsWrap(body) ELSE body
       IN  parses' = Append(parses, [Body |-> Body, wrapped |-> wrapped,
                                     now |-> clock,
                                     result |-> parse_event_message(Body, clock)])
    /\ UNCHANGED <<clock, body, consumer_vars, host_vars, pub_vars, store_vars>>

ParseNext == Tick \/ (\E wrapped \in BOOLEAN : ParseCall(wrapped))

\* The callers of the parser, on every body.
ParseSpec == ParseInit /\ [][ParseNext]_vars

\* ---------------------------------------------- the handlers' tables
\* The emails of the model profiles.
ModelEmails == {"alice", "alice@example.com"}

\* The tables of models a process starts with: profiles that register_model
\* created with user_id NULL (model.py 208-209), and profiles that have a
\* link.
ModelTables ==
    UNION {[D -> {AbsentId, 3}] : D \in SUBSET ModelEmails}

\* The payloads of the user_created events that are routed.
StorePayloads ==
    { ModelUser,
      AdminUser,
      PartialUser,
      UserData(0, "alice", Absent, "model", TRUE),
      UserData(2, "alice", Absent, "model", TRUE),
      UserData(1, "alice", "alice@example.com", "model", TRUE),
      UserData(2, "bob", "alice@example.com", "model", TRUE) }

StoreInit ==
    /\ ConsumerInit
    /\ topic_arn = TRUE
    /\ region_name = TRUE
    /\ sns_calls = 0
    /\ last_publish = NoPublish
    /\ last_op = NoOp
    /\ ParserIdle
    /\ users = {}
    /\ models \in ModelTables
    /\ routed = <<>>

\* The poll loop's handling of one delivery of a user_created event, from
\* route_event to the decision to delete (event_router.py 24-37, 48-53;
\* sqs_consumer.py 200-208).  db_ok and db are what the database does in
\* the first and in the second handler; both handlers catch every
\* exception of their bodies and return.
RouteUserCreated(event_data, db_ok, db) ==
    LET event_message ==
            parse_event_message(Obj("user_created", event_data), clock)[1]
        first == UserCreatedOnStore(users, event_message.data, db_ok)
        invoked == ContinueChain(first.result)
        second == ModelUserCreatedOnStore(models, event_message.data, db)
        model_success == model_process_external_user_created(event_message.data)
        success == IF invoked
                   THEN RouteChainResult(first.result, model_success)
                   ELSE first.result
    IN  /\ users' = first.users
        /\ models' = IF invoked THEN second.models ELSE models
        /\ routed' = <<[event |-> event_message,
                        redelivery |-> /\ routed # <<>>
                                       /\ routed[1].event = event_message
                                       /\ routed[1].success,
                        db_ok |-> db_ok,
                        db |-> IF invoked THEN db ELSE "ok",
                        h1 |-> first.result,
                        invoked |-> invoked,
                        called |-> invoked /\ second.called,
                        linked |-> invoked /\ second.linked,
                        model_success |-> invoked /\ model_success,
                        success |-> success,
                        ack |-> Ack(success)]>>
        /\ UNCHANGED <<consumer_vars, host_vars, pub_vars, parse_vars>>

StoreNext ==
    \E event_data \in StorePayloads, db_ok \in BOOLEAN, db \in DbOutcomes :
        RouteUserCreated(event_data, db_ok, db)

\* Deliveries of user_created events, one after the other, on the tables.
StoreSpec == StoreInit /\ [][StoreNext]_vars

\* ------------------------------------------------------------------ claims
\* The event type the poll loop reads from message i of the batch.
EventTypeOf(i) == ActualMessage(batch[i].Body).event_type

\* Some handler of message i's chain returned failure.
HandlerReturnedFailure(i) == att[i].h1 = "fail" \/ att[i].h2 = "fail"

\* C1: a message that parsed and whose route_event reported failure because
\* a handler returned failure is not deleted in that attempt.
C1_NoAckOnHandlerFailure ==
    \A i \in DOMAIN att :
        (att[i].parsed = "event" /\ att[i].route = "false" /\ HandlerReturnedFailure(i))
            => att[i].deletes = 0 /\ att[i].done /\ ~(pc = "delete" /\ idx = i)

C1_Witness ==
    \E i \in DOMAIN att :
        /\ att[i].parsed = "event" /\ att[i].route = "false"
        /\ att[i].h1 = "fail" /\ att[i].done
        /\ pc = "sleep"

\* Every handler of message i's chain was invoked and returned success.
AllHandlersSucceeded(i) ==
    /\ EventTypeOf(i) \in {"user_created", "user_updated"}
    /\ att[i].h1 = "ok"
    /\ EventTypeOf(i) = "user_created" => att[i].h2 = "ok"

\* C2: a message that parsed and whose handlers all succeeded has delete
\* called on it exactly once in that attempt: never twice, and once when the
\* attempt is over, whatever the transport answered.
C2_AckOnceOnSuccess ==
    \A i \in DOMAIN att :
        (att[i].parsed = "event" /\ AllHandlersSucceeded(i))
            => /\ att[i].deletes <= 1
               /\ att[i].done => att[i].deletes = 1
               /\ ~att[i].done => pc = "delete" /\ idx = i

C2_Witness ==
    \E i \in DOMAIN att :
        /\ EventTypeOf(i) = "user_created"
        /\ att[i].h1 = "ok" /\ att[i].h2 = "ok"
        /\ att[i].done /\ att[i].deletes = 1
        /\ batch[i] \in queue

\* C3 as stated: a message of a type with no handler (user_deleted,
\* model_created, model_updated) is routed with success and deleted.
C3_NoHandlerTypesAcked ==
    \A i \in DOMAIN att :
        (att[i].done /\ att[i].parsed = "event"
            /\ EventTypeOf(i) \in {"user_deleted", "model_created", "model_updated"})
            => att[i].route = "true" /\ att[i].deletes = 1

\* The body cannot be parsed: it is not JSON, or the decoded object has no
\* event_type or one that is not in EventType.
Unparseable(Body) ==
    \/ Body.kind # "object"
    \/ ActualMessage(Body).kind # "object"
    \/ ActualMessage(Body).event_type = Absent
    \/ ActualMessage(Body).event_type \notin EventType

\* C4: a message whose body cannot be parsed is never routed and has
\* delete called on it exactly once.
C4_ParseFailureAcked ==
    \A i \in DOMAIN att :
        (Unparseable(batch[i].Body) /\ att[i].parsed # "pending")
            => /\ att[i].parsed = "none"
               /\ ~att[i].routed /\ att[i].route = "none"
               /\ att[i].h1 = "none" /\ att[i].h2 = "none"
               /\ att[i].deletes <= 1
               /\ att[i].done => att[i].deletes = 1
               /\ ~att[i].done => pc = "delete" /\ idx = i

C4_Witness ==
    \E i \in DOMAIN att :
        /\ batch[i].Body = Obj("order_shipped", NoData)
        /\ att[i].done /\ att[i].deletes = 1 /\ ~att[i].routed

\* An exception was raised inside route_event for message i.
RouteRaised(i) == att[i].h1 = "raise" \/ att[i].h2 = "raise"
RouteUnloadable(i) == att[i].h1 = "import_error" \/ att[i].h2 = "import_error"

\* C5 as stated: whenever routing raises (a handler throws or cannot be
\* loaded) the outcome is failure and the message is not deleted.
C5_RouteExceptionNeverAcked ==
    \A i \in DOMAIN att :
        (RouteRaised(i) \/ RouteUnloadable(i))
            => att[i].route = "false" /\ att[i].deletes = 0

\* C5 amended: an exception other than ImportError makes the outcome a
\* failure and the message is not deleted; an ImportError (the handler
\* cannot be loaded) makes it a success and the message is deleted once.
C5_RouteExceptionAck ==
    \A i \in DOMAIN att :
        /\ RouteRaised(i)
              => att[i].route = "false" /\ att[i].deletes = 0 /\ att[i].done
        /\ RouteUnloadable(i)
              => /\ att[i].route = "true"
                 /\ att[i].deletes <= 1
                 /\ att[i].done => att[i].deletes = 1
                 /\ ~att[i].done => pc = "delete" /\ idx = i

C5_Witness ==
    /\ pc = "sleep"
    /\ \E i, j \in DOMAIN att :
         /\ att[i].h2 = "raise" /\ att[i].deletes = 0
         /\ att[j].h1 = "import_error" /\ att[j].deletes = 1

\* C6 as stated: route_event reports success only if every handler it
\* invoked returned success, and a failure returned by the second handler
\* of user_created makes the outcome a failure and leaves the message.
C6_SuccessMeansAllSucceeded ==
    \A i \in DOMAIN att :
        /\ att[i].route = "true" => ~HandlerReturnedFailure(i)
        /\ att[i].h2 = "fail" => att[i].route = "false" /\ att[i].deletes = 0

\* C7: at the end of an iteration every message of the batch was parsed,
\* routed if it parsed, and deleted if its own outcome was success, whatever
\* happened to the messages before it; and while message idx is processed
\* the messages before it are done.
C7_BatchIsolation ==
    /\ pc = "sleep" =>
          \A j \in DOMAIN batch :
             /\ att[j].done
             /\ att[j].parsed \in {"none", "event"}
             /\ att[j].parsed = "event" => att[j].routed /\ att[j].route # "none"
             /\ att[j].parsed = "none" => att[j].deletes = 1
             /\ att[j].route = "true" => att[j].deletes = 1
    /\ pc \in {"parse", "route", "route_h2", "delete"} =>
          \A j \in DOMAIN batch : j < idx => att[j].done

C7_Witness ==
    /\ pc = "sleep"
    /\ \E i, j \in DOMAIN att :
         /\ i < j
         /\ att[i].h1 = "raise" /\ att[i].route = "false"
         /\ att[j].route = "true" /\ att[j].deletes = 1
         /\ batch[j] \notin queue

\* C8: the second handler of user_created is loaded and awaited only after
\* the first returned success; when the first returned failure the second
\* is not invoked.
C8_ChainShortCircuit ==
    \A i \in DOMAIN att :
        /\ att[i].h2 # "none" => EventTypeOf(i) = "user_created" /\ att[i].h1 = "ok"
        /\ att[i].h1 # "ok" => att[i].h2 = "none"
        /\ (pc = "route_h2" /\ idx = i) => att[i].h1 = "ok"

C8_Witness ==
    \E i \in DOMAIN att :
        /\ EventTypeOf(i) = "user_created"
        /\ att[i].h1 = "fail" /\ att[i].h2 = "none" /\ att[i].done

\* A failure happened in the current iteration: the receive call failed,
\* or a message did not parse, its routing failed or raised, or its
\* delete was refused (the message is done, deleted once, and still on
\* the queue).
IterationFailed ==
    \/ recv_failed
    \/ \E i \in DOMAIN att :
          \/ att[i].parsed = "none"
          \/ att[i].route = "false"
          \/ HandlerReturnedFailure(i) \/ RouteRaised(i) \/ RouteUnloadable(i)
          \/ att[i].done /\ att[i].deletes = 1 /\ batch[i] \in queue

\* C9: the loop leaves only after a stop request, and after a failure of
\* receive, parse, route, a handler or delete it comes back to the
\* receive call unless a stop was requested.
C9_LoopSurvivesFailures ==
    /\ [](pc = "exited" => stop_requested)
    /\ [](IterationFailed => <>(pc = "poll" \/ stop_requested))

C9_Witness == IterationFailed /\ ~stop_requested /\ pc = "sleep"

\* C10 as stated: after a failed receive call the loop sleeps the error
\* delay.
C10_ReceiveFailureLongDelay ==
    (pc = "sleep" /\ recv_failed) => delay = ErrorDelay

\* stop_consumer was called after the loop started: is_running is set at
\* line 175 and cleared only by stop_consumer (line 226).
StoppedWhileRunning == ~is_running /\ pc \notin {"none", "start"}

\* C12: once stop_consumer has been called while the loop is running, no
\* step of the loop issues a receive call (the loop enters the receive call
\* only from the test of is_running), and the loop reaches the end of an
\* iteration only with every message of its batch decided.
C12_NoReceiveAfterStop ==
    [][/\ (StoppedWhileRunning /\ pc # "poll") => pc' # "poll"
       /\ (StoppedWhileRunning /\ pc' = "sleep") =>
              \A i \in DOMAIN att' : att'[i].done]_vars

\* The stop came during a batch of two, and the loop goes on with the
\* second message.
C12_Witness ==
    StoppedWhileRunning /\ pc = "parse" /\ idx = 2 /\ att[1].done

\* C13: after stop_consumer on a running consumer the loop exits, when
\* every call the loop awaits returns.
C13_StopLeadsToExit == StoppedWhileRunning ~> pc = "exited"

C13_Witness == pc = "exited" /\ stop_requested /\ ~is_running

\* A message of the batch whose parsing has begun and whose processing has
\* not reached its end (no decision not to delete, no delete call
\* returned).
InProcess(i) == att[i].parsed # "pending" /\ ~att[i].done

\* C11 as stated: when the hosting process has shut the consumer down, no
\* message of the batch is left with its processing begun and not ended.
C11_ShutdownNeverInterrupts ==
    pc = "cancelled" => \A i \in DOMAIN att : ~InProcess(i)

\* C14: the process has at most one poll loop, and at most one message is
\* in process at a time: it is the current one, every message before it
\* has reached its end and no message after it has begun.
C14_OneLoopOneMessage ==
    /\ tasks <= 1
    /\ (pc \notin {"none", "cancelled"}) => tasks = 1
    /\ \A i \in DOMAIN att :
          /\ InProcess(i) => i = idx
          /\ i < idx => att[i].done
          /\ i > idx => att[i].parsed = "pending"

\* The second message of a batch is in its second handler, the first
\* message has reached its end.
C14_Witness ==
    /\ tasks = 1 /\ pc = "route_h2" /\ Len(batch) = 2 /\ idx = 2
    /\ InProcess(2) /\ att[1].done

\* The place of a message of the batch in the list the receive call
\* returned (a receive call returns a message once).
PlaceInRaw(sqs_msg) == CHOOSE k \in DOMAIN raw_batch : raw_batch[k] = sqs_msg

\* C15: the messages of a batch are processed in the order in which the
\* transport returned them, and a message's parsing has begun only when
\* every message before it has reached its end (its decision not to delete,
\* or its delete call returned).
C15_BatchInTransportOrder ==
    /\ \A i, j \in DOMAIN batch :
          i < j => PlaceInRaw(batch[i]) < PlaceInRaw(batch[j])
    /\ \A i, j \in DOMAIN att :
          (i < j /\ att[j].parsed # "pending") => att[i].done

\* The transport returned two messages and the loop has parsed the second.
C15_Witness ==
    /\ Len(raw_batch) = 2 /\ Len(batch) = 2
    /\ att[2].parsed # "pending" /\ att[1].done /\ att[1].routed

\* C16: without a topic publish_event returns None and the transport's
\* publish is never called.
C16_NoTopicNoPublish ==
    ~topic_arn =>
        /\ sns_calls = 0
        /\ last_publish.transport = "not_called"
        /\ last_publish.returned = RetNone

\* publish_event was called without a topic.
C16_Witness == ~topic_arn /\ last_publish.invoked

\* The list of the names of the services: the values of ServiceTarget but
\* the broadcast name.
KnownServices == ServiceTarget \ {"all"}

Items(names) == {names[k] : k \in DOMAIN names}

\* C17 as stated: an envelope published for the target "all" carries the
\* names of all the services in metadata.target_services, and not "all".
C17_AllExpanded ==
    (/\ last_publish.message # <<>>
     /\ last_publish.request[1].target_services = Str("all")) =>
        LET names == last_publish.message[1].metadata.target_services.items
        IN  /\ Items(names) = KnownServices
            /\ "all" \notin Items(names)

\* C18: publish_event does not raise; it returns the transport's message
\* id when the transport accepted the publish, and None in every other
\* case.
C18_PublishNeverRaises ==
    last_publish.invoked =>
        /\ last_publish.returned.kind # "raise"
        /\ last_publish.returned =
              IF last_publish.transport = "ok" THEN RetId(sns_calls) ELSE RetNone

\* The session could not be made for a publish with a topic.
C18_Witness ==
    /\ last_publish.invoked /\ topic_arn
    /\ last_publish.transport = "session_error"

\* C19 as stated: a business operation that wrote to the database returns
\* its result.
C19_PublishNeverFailsOperation ==
    last_op.db_written => last_op.outcome = "returned"

\* C20: the attributes of an accepted publish agree with its message:
\* the event type, the source service, and the list of target services.
C20_AttributesAgree ==
    last_publish.transport = "ok" =>
        LET message == last_publish.message[1]
            attributes == last_publish.attributes[1]
        IN  /\ attributes.event_type = message.event_type
            /\ attributes.source_service = message.service_name
            /\ attributes.target_services = message.metadata.target_services

\* An accepted publish to the broadcast target.
C20_Witness ==
    /\ last_publish.transport = "ok"
    /\ last_publish.request[1].target_services = Str("all")
    /\ last_publish.returned.kind = "id"

\* C30 as stated: once stop_consumer has been called after the task of the
\* loop was created, the loop enters no receive call.
C30_StopNeverLost ==
    [][(stop_requested /\ tasks = 1 /\ pc # "poll") => pc' # "poll"]_vars

\* --------------------------------------------------------------- C21..C29
\* The object has both keys of an SNS notification.
IsWrapper(obj) == obj.kind = "object" /\ obj.has_message /\ obj.has_topic

\* C21 as stated: for every body E, parsing the notification that carries E
\* gives the result of parsing E directly.
C21_WrapperParsesAsInner ==
    \A i, j \in DOMAIN parses :
        (parses[i].wrapped /\ ~parses[j].wrapped)
            => parses[i].result = parses[j].result

\* C21: for every body E that does not itself have both Message and
\* TopicArn, parsing the notification that carries E gives the result of
\* parsing E directly, the same envelope or the same failure, when both
\* calls read the same time or E has a timestamp.
C21_WrapperParsesAsPlainInner ==
    \A i, j \in DOMAIN parses :
        (/\ parses[i].wrapped
         /\ ~parses[j].wrapped
         /\ ~IsWrapper(body)
         /\ (parses[i].now = parses[j].now \/ body.timestamp # <<>>))
            => parses[i].result = parses[j].result

\* An event was parsed directly and out of its notification, to an envelope.
C21_Witness ==
    \E i, j \in DOMAIN parses :
        /\ parses[i].wrapped
        /\ ~parses[j].wrapped
        /\ ~IsWrapper(body)
        /\ parses[i].result # <<>>
        /\ parses[i].result = parses[j].result

\* C22 as stated: two calls on the same body, at any two times, return
\* equal envelopes.
C22_ParseDeterministic ==
    \A i, j \in DOMAIN parses :
        parses[i].Body = parses[j].Body => parses[i].result = parses[j].result

\* The envelope without its timestamp.
Untimed(envelope) == [envelope EXCEPT !.timestamp = InvalidTime]

\* C22: two calls on the same body both fail or both return an envelope;
\* the envelopes are equal in every field but timestamp, defaults included,
\* and equal in timestamp too when the event has one; when it has none the
\* timestamp of each envelope is the time of its call.
C22_ParseDeterministicButClock ==
    \A i, j \in DOMAIN parses :
        parses[i].Body = parses[j].Body =>
            LET r == parses[i].result
                q == parses[j].result
            IN  /\ (r = <<>>) = (q = <<>>)
                /\ r # <<>> =>
                      /\ Untimed(r[1]) = Untimed(q[1])
                      /\ IF ActualMessage(parses[i].Body).timestamp # <<>>
                         THEN r[1].timestamp = q[1].timestamp
                         ELSE /\ r[1].timestamp = parses[i].now
                              /\ q[1].timestamp = parses[j].now

\* A body that has a timestamp and lacks event_id or service_name was
\* parsed at two different times, to equal envelopes with the default.
C22_Witness ==
    \E i, j \in DOMAIN parses :
        /\ parses[i].Body = parses[j].Body
        /\ parses[i].now # parses[j].now
        /\ parses[i].result # <<>>
        /\ parses[i].result = parses[j].result
        /\ "unknown" \in {parses[i].result[1].event_id,
                          parses[i].result[1].service_name}

\* The parse is of a notification whose Message is itself an object with
\* Message and TopicArn.
Nested(p) == IsWrapper(p.Body) /\ IsWrapper(p.Body.message[1])

\* C29: the parser unwraps one level only: the object in the Message of a
\* notification is validated as the event itself even when it has Message
\* and TopicArn, and what its own Message holds is not read.
C29_OneLevelOnly ==
    \A i \in DOMAIN parses :
        Nested(parses[i]) =>
            LET inner == parses[i].Body.message[1]
            IN  parses[i].result =
                    IF inner.event_type \in EventType
                    THEN BuildEvent(inner.event_type, inner, parses[i].now)
                    ELSE <<>>

\* A nested notification was parsed to the envelope of its outer object,
\* while its inner Message holds an event of another type.
C29_Witness ==
    \E i \in DOMAIN parses :
        /\ Nested(parses[i])
        /\ parses[i].result # <<>>
        /\ parses[i].result[1].event_type = "user_updated"
        /\ parses[i].Body.message[1].message[1].event_type = "user_created"

\* C25 as stated: at the end of an iteration every message the receive
\* call returned has been parsed and has its decision, the delete or the
\* leaving for redelivery.
C25_EveryReturnedMessageDecided ==
    pc = "sleep" =>
        \A k \in DOMAIN raw_batch :
            \E i \in DOMAIN att :
                /\ batch[i] = raw_batch[k]
                /\ att[i].parsed # "pending"
                /\ att[i].done

\* The email _auto_link_model_user searches the profile of an event by.
SearchEmail(event_data) ==
    IF event_data.email \in {Absent, ""} THEN event_data.username
    ELSE event_data.email

C27_RedeliveryIdempotent ==
    [][(/\ routed # <<>>
        /\ routed' # <<>>
        /\ routed'[1].event = routed[1].event
        /\ routed[1].db_ok /\ routed[1].db = "ok"
        /\ routed'[1].db_ok /\ routed'[1].db = "ok")
           => /\ users' = users
              /\ models' = models
              /\ routed[1].success => routed'[1].success /\ routed'[1].ack]_vars

\* An event that created its user and linked its profile was delivered
\* again, with success.
C27_Witness ==
    /\ routed # <<>>
    /\ routed[1].redelivery /\ routed[1].success /\ routed[1].db_ok
    /\ \E u \in users : u.id = routed[1].event.data.user_id
    /\ SearchEmail(routed[1].event.data) \in DOMAIN models
    /\ models[SearchEmail(routed[1].event.data)] = routed[1].event.data.user_id

\* C28: no delivery of a user_created event changes the link of a profile
\* that has one, and no profile is removed: a link is written only where
\* user_id was NULL.
C28_LinkNeverOverwritten ==
    [][\A email \in DOMAIN models :
          /\ email \in DOMAIN models'
          /\ models[email] # AbsentId => models'[email] = models[email]]_vars

\* The auto-link found the profile of a model user linked to another user
\* and left it so.
C28_Witness ==
    /\ routed # <<>>
    /\ routed[1].called /\ ~routed[1].linked /\ routed[1].db = "ok"
    /\ SearchEmail(routed[1].event.data) \in DOMAIN models
    /\ models[SearchEmail(routed[1].event.data)]
          \notin {AbsentId, routed[1].event.data.user_id}

C26_RetriedUntilDeleted ==
    \A raw \in RetryMessages : (raw \in queue) ~> (raw \notin queue)

\* The first handler of a message failed, the loop left the message on the
\* queue and went on to its sleep.
C26_Witness ==
    /\ pc = "sleep"
    /\ \E i \in DOMAIN att :
          /\ batch[i] \in RetryMessages
          /\ att[i].h1 \in {"fail", "raise"}
          /\ att[i].done /\ att[i].deletes = 0
          /\ batch[i] \in queue
====
